---- MODULE Spec2Model ----
(***************************************************************************)
(* Model of the Elephantasm TypeScript client: the Elephantasm class      *)
(* (constructor, request, getAnimaId, createAnima, inject, extract), the  *)
(* event-type resolver and the error classes.                             *)
(*                                                                         *)
(* Representation.                                                         *)
(*  - A string is a sequence of atoms.  An atom is a non-empty run of     *)
(*    characters; the character '/' is always an atom of its own, so       *)
(*    "ends with '/'" is "the last atom is "/"".  The empty string is      *)
(*    << >>.  Event-type tokens are spelled character by character.        *)
(*  - An optional value (a field that may be undefined) is a sequence of  *)
(*    length at most one: None is << >>, Some(v) is << v >>.               *)
(***************************************************************************)
EXTENDS Integers, Sequences, FiniteSets, TLC

VARIABLES
    env,          \* process.env, as read by the constructor
    config,       \* the config object handed to the constructor, once called
    client,       \* the constructed instance (its four readonly fields)
    thrown,       \* what the constructor threw, if it threw
    call,         \* the invocation in progress on the client
    invocations,  \* number of public operations invoked so far
    wire,         \* number of HTTP requests handed to fetch so far
    inflight,     \* the calls made without awaiting the one before (Promise.all)
    module        \* the module-level state of index.ts: defaultClient and its uses

vars == <<env, config, client, thrown, call, invocations, wire, inflight, module>>

(***************************************************************************)
(* Bounds                                                                  *)
(***************************************************************************)
MaxCalls == 2

\* number of calls that may be in flight together
MaxInflight == 2

(***************************************************************************)
(* Optional values and JavaScript truthiness                               *)
(***************************************************************************)
None == << >>

Some(v) == << v >>

\* a string-valued optional is truthy when defined and not ''
TruthyStr(o) == o # None /\ o[1] # << >>

\* a number-valued optional is truthy when defined and not 0
TruthyNum(o) == o # None /\ o[1] # 0

\* a || b on string-valued optionals
OrStr(a, b) == IF TruthyStr(a) THEN a ELSE b

(***************************************************************************)
(* Error classes                                                           *)
(***************************************************************************)
ElephantasmError(message, statusCode) ==
    [kind |-> "ElephantasmError", message |-> message, statusCode |-> statusCode]

AuthenticationError(message) ==
    [kind |-> "AuthenticationError", message |-> message, statusCode |-> Some(401)]

NotFoundError(message) ==
    [kind |-> "NotFoundError", message |-> message, statusCode |-> Some(404)]

ValidationError(message) ==
    [kind |-> "ValidationError", message |-> message, statusCode |-> Some(422)]

RateLimitError(message) ==
    [kind |-> "RateLimitError", message |-> message, statusCode |-> Some(429)]

ServerError(message) ==
    [kind |-> "ServerError", message |-> message, statusCode |-> Some(500)]

\* a built-in Error (or TypeError, SyntaxError, DOMException): not an SDK class
JsError(name, message) ==
    [kind |-> name, message |-> message, statusCode |-> None]

\* error instanceof ElephantasmError
InstanceOfElephantasmError(e) ==
    e.kind \in {"ElephantasmError", "AuthenticationError", "NotFoundError",
                "ValidationError", "RateLimitError", "ServerError"}

(***************************************************************************)
(* Constructor                                                             *)
(***************************************************************************)
DefaultEndpoint == <<"https:", "/", "/", "api.elephantasm.com">>

DefaultTimeout == 30000

ApiKeyRequiredMessage ==
    <<"API key required", ". Set ELEPHANTASM_API_KEY env var or pass apiKey in config.">>

\* mutant: the endpoint is stored as given
StripTrailingSlash_Kept(s) == s

\* .replace(/\/$/, ''): removes one '/' at the very end of the string
StripTrailingSlash(s) ==
    IF Len(s) > 0 /\ s[Len(s)] = "/" THEN SubSeq(s, 1, Len(s) - 1) ELSE s

\* mutant: the environment takes precedence over the config object
ConstructorFields_EnvFirst(cfg, e) ==
    [apiKey         |-> OrStr(e.ELEPHANTASM_API_KEY, OrStr(cfg.apiKey, Some(<< >>)))[1],
     defaultAnimaId |-> OrStr(e.ELEPHANTASM_ANIMA_ID, cfg.animaId),
     endpoint       |-> StripTrailingSlash(
                           OrStr(e.ELEPHANTASM_ENDPOINT,
                                 OrStr(cfg.endpoint, Some(DefaultEndpoint)))[1]),
     timeout        |-> IF TruthyNum(cfg.timeout) THEN cfg.timeout[1] ELSE DefaultTimeout]

\* the field assignments of the constructor
ConstructorFields(cfg, e) ==
    [apiKey         |-> OrStr(cfg.apiKey, OrStr(e.ELEPHANTASM_API_KEY, Some(<< >>)))[1],
     defaultAnimaId |-> OrStr(cfg.animaId, e.ELEPHANTASM_ANIMA_ID),
     endpoint       |-> StripTrailingSlash(
                           OrStr(cfg.endpoint,
                                 OrStr(e.ELEPHANTASM_ENDPOINT, Some(DefaultEndpoint)))[1]),
     timeout        |-> IF TruthyNum(cfg.timeout) THEN cfg.timeout[1] ELSE DefaultTimeout]

\* mutant: the constructor without its API key check
Constructor_NoKeyCheck(cfg, e) ==
    [threw |-> FALSE, error |-> None, instance |-> Some(ConstructorFields(cfg, e))]

\* new Elephantasm(cfg): either throws or yields the instance
Constructor(cfg, e) ==
    LET f == ConstructorFields(cfg, e)
    IN  IF f.apiKey = << >>
        THEN [threw |-> TRUE,  error |-> Some(AuthenticationError(ApiKeyRequiredMessage)),
              instance |-> None]
        ELSE [threw |-> FALSE, error |-> None, instance |-> Some(f)]

(***************************************************************************)
(* Event-type resolver                                                     *)
(***************************************************************************)
LowerChars == <<"a","b","c","d","e","f","g","h","i","j","k","l","m",
                "n","o","p","q","r","s","t","u","v","w","x","y","z">>

UpperChars == <<"A","B","C","D","E","F","G","H","I","J","K","L","M",
                "N","O","P","Q","R","S","T","U","V","W","X","Y","Z">>

\* the characters of the tokens, in UTF-16 code unit order
CodeOrder == <<".">> \o UpperChars \o <<"_">> \o LowerChars

CharCode(c) == CHOOSE i \in 1..Len(CodeOrder) : CodeOrder[i] = c

\* String.prototype.toUpperCase, one character
ToUpperChar(c) ==
    IF \E i \in 1..Len(LowerChars) : LowerChars[i] = c
    THEN UpperChars[CHOOSE i \in 1..Len(LowerChars) : LowerChars[i] = c]
    ELSE c

\* the lower-case form of one character
ToLowerChar(c) ==
    IF \E i \in 1..Len(UpperChars) : UpperChars[i] = c
    THEN LowerChars[CHOOSE i \in 1..Len(UpperChars) : UpperChars[i] = c]
    ELSE c

\* every spelling of s that differs from it in letter case only
Casings(s) ==
    { [i \in 1..Len(s) |-> IF i \in U THEN ToUpperChar(s[i]) ELSE ToLowerChar(s[i])] :
        U \in SUBSET (1..Len(s)) }

\* String.prototype.toUpperCase
ToUpperCase(s) == [i \in 1..Len(s) |-> ToUpperChar(s[i])]

\* a < b as JavaScript compares strings (code unit by code unit)
StrLess(a, b) ==
    \E k \in 1..(Len(b)) :
        /\ \A j \in 1..(k - 1) : j <= Len(a) /\ a[j] = b[j]
        /\ \/ k = Len(a) + 1
           \/ k <= Len(a) /\ CharCode(a[k]) < CharCode(b[k])

RECURSIVE SortStrings(_)
\* [...set].sort(): the strings of S in ascending order
SortStrings(S) ==
    IF S = {} THEN << >>
    ELSE LET m == CHOOSE x \in S : \A y \in S \ {x} : StrLess(x, y)
         IN  <<m>> \o SortStrings(S \ {m})

RECURSIVE Join(_, _)
\* Array.prototype.join
Join(strings, sep) ==
    IF Len(strings) = 0 THEN << >>
    ELSE IF Len(strings) = 1 THEN strings[1]
    ELSE strings[1] \o sep \o Join(Tail(strings), sep)

MESSAGE_IN_VALUE == <<"m","e","s","s","a","g","e",".","i","n">>

MESSAGE_OUT_VALUE == <<"m","e","s","s","a","g","e",".","o","u","t">>

TOOL_CALL_VALUE == <<"t","o","o","l",".","c","a","l","l">>

TOOL_RESULT_VALUE == <<"t","o","o","l",".","r","e","s","u","l","t">>

SYSTEM_VALUE == <<"s","y","s","t","e","m">>

VALID_EVENT_TYPES ==
    {MESSAGE_IN_VALUE, MESSAGE_OUT_VALUE, TOOL_CALL_VALUE, TOOL_RESULT_VALUE, SYSTEM_VALUE}

\* the alias table as a set of <<key, value>> pairs
EVENT_TYPE_ALIASES ==
    { <<<<"M","E","S","S","A","G","E","_","I","N">>, MESSAGE_IN_VALUE>>,
      <<<<"M","E","S","S","A","G","E","_","O","U","T">>, MESSAGE_OUT_VALUE>>,
      <<<<"T","O","O","L","_","C","A","L","L">>, TOOL_CALL_VALUE>>,
      <<<<"T","O","O","L","_","R","E","S","U","L","T">>, TOOL_RESULT_VALUE>>,
      <<<<"S","Y","S","T","E","M">>, SYSTEM_VALUE>> }

\* [...VALID_EVENT_TYPES].sort().join(', ')
ValidValuesList == Join(SortStrings(VALID_EVENT_TYPES), <<", ">>)

InvalidEventTypeMessage(eventType) ==
    <<"Invalid eventType '">> \o eventType \o <<"'", ". ">>
    \o <<"Valid values: ">> \o ValidValuesList \o <<". ">>
    \o <<"Hint", ": use dot-notation strings (e.g. 'tool.call') or uppercase aliases (e.g. 'TOOL_CALL').">>

\* mutant: the alias table is read at the token as written
ResolveEventType_ExactAlias(eventType) ==
    IF eventType \in VALID_EVENT_TYPES
    THEN [threw |-> FALSE, value |-> eventType, error |-> None]
    ELSE IF \E a \in EVENT_TYPE_ALIASES : a[1] = eventType
    THEN [threw |-> FALSE,
          value |-> (CHOOSE a \in EVENT_TYPE_ALIASES : a[1] = eventType)[2],
          error |-> None]
    ELSE [threw |-> TRUE, value |-> << >>,
          error |-> Some(ValidationError(InvalidEventTypeMessage(eventType)))]

\* mutant: a token that begins with an alias is taken for that alias
ResolveEventType_PrefixAlias(eventType) ==
    LET up     == ToUpperCase(eventType)
        hit(a) == Len(a[1]) <= Len(up) /\ SubSeq(up, 1, Len(a[1])) = a[1]
    IN  IF eventType \in VALID_EVENT_TYPES
        THEN [threw |-> FALSE, value |-> eventType, error |-> None]
        ELSE IF \E a \in EVENT_TYPE_ALIASES : hit(a)
        THEN [threw |-> FALSE,
              value |-> (CHOOSE a \in EVENT_TYPE_ALIASES : hit(a))[2],
              error |-> None]
        ELSE [threw |-> TRUE, value |-> << >>,
              error |-> Some(ValidationError(InvalidEventTypeMessage(eventType)))]

\* mutant: the canonical values are matched without regard to letter case
ResolveEventType_CaseInsensitiveCanonical(eventType) ==
    LET low == [i \in 1..Len(eventType) |-> ToLowerChar(eventType[i])]
    IN  IF low \in VALID_EVENT_TYPES
        THEN [threw |-> FALSE, value |-> low, error |-> None]
        ELSE IF \E a \in EVENT_TYPE_ALIASES : a[1] = ToUpperCase(eventType)
        THEN [threw |-> FALSE,
              value |-> (CHOOSE a \in EVENT_TYPE_ALIASES : a[1] = ToUpperCase(eventType))[2],
              error |-> None]
        ELSE [threw |-> TRUE, value |-> << >>,
              error |-> Some(ValidationError(InvalidEventTypeMessage(eventType)))]

\* resolveEventType: the canonical value, or the ValidationError it throws
ResolveEventType(eventType) ==
    IF eventType \in VALID_EVENT_TYPES
    THEN [threw |-> FALSE, value |-> eventType, error |-> None]
    ELSE IF \E a \in EVENT_TYPE_ALIASES : a[1] = ToUpperCase(eventType)
    THEN [threw |-> FALSE,
          value |-> (CHOOSE a \in EVENT_TYPE_ALIASES : a[1] = ToUpperCase(eventType))[2],
          error |-> None]
    ELSE [threw |-> TRUE, value |-> << >>,
          error |-> Some(ValidationError(InvalidEventTypeMessage(eventType)))]

(***************************************************************************)
(* Transport layer: the pieces of Elephantasm.request                      *)
(***************************************************************************)
\* `${this.endpoint}/api${path}`
RequestUrl(endpoint, path) == endpoint \o <<"/", "api">> \o path

\* mutant: the credential is sent without the Bearer scheme
RequestHeaders_NoBearer(apiKey, optionHeaders) ==
    optionHeaders @@
    ("Authorization" :> apiKey) @@
    ("Content-Type" :> <<"application/json">>)

\* the headers object: the two defaults, then ...options.headers over them
RequestHeaders(apiKey, optionHeaders) ==
    optionHeaders @@
    ("Authorization" :> (<<"Bearer ">> \o apiKey)) @@
    ("Content-Type" :> <<"application/json">>)

\* response.ok
ResponseOk(status) == 200 <= status /\ status <= 299

\* mutant: the status phrase is used whatever the body says
ErrorDetail_StatusTextOnly(body, statusText) == statusText

\* the try/catch around response.json() on the error path: errorData.detail || statusText.
\* body.parsed is FALSE when response.json() rejects; reading .detail of null throws too.
ErrorDetail(body, statusText) ==
    IF ~body.parsed \/ body.json.null THEN statusText
    ELSE OrStr(body.json.detail, Some(statusText))[1]

\* mutant: the server-error test is status > 500
MapStatus_Above500(status, detail) ==
    IF status = 401 THEN AuthenticationError(detail)
    ELSE IF status = 404 THEN NotFoundError(detail)
    ELSE IF status = 422 THEN ValidationError(detail)
    ELSE IF status = 429 THEN RateLimitError(detail)
    ELSE IF status > 500 THEN ServerError(detail)
    ELSE ElephantasmError(detail, Some(status))

\* the status ladder
MapStatus(status, detail) ==
    IF status = 401 THEN AuthenticationError(detail)
    ELSE IF status = 404 THEN NotFoundError(detail)
    ELSE IF status = 422 THEN ValidationError(detail)
    ELSE IF status = 429 THEN RateLimitError(detail)
    ELSE IF status >= 500 THEN ServerError(detail)
    ELSE ElephantasmError(detail, Some(status))

\* String(error) for a built-in error: name, then ': ' and the message if there is one
ErrorToString(e) ==
    IF e.message = << >> THEN <<e.kind>> ELSE <<e.kind, ": ">> \o e.message

\* mutant: the catch block wraps whatever it catches, SDK errors included
CatchError_WrapAll(error, timeout) ==
    IF error.kind = "AbortError"
    THEN ElephantasmError(<<"Request timeout after ", ToString(timeout), "ms">>, None)
    ELSE ElephantasmError(<<"Request failed: ">> \o ErrorToString(error), None)

\* mutant: the catch block without its AbortError branch
CatchError_NoAbortBranch(error, timeout) ==
    IF InstanceOfElephantasmError(error) THEN error
    ELSE ElephantasmError(<<"Request failed: ">> \o ErrorToString(error), None)

\* the catch block: what request() finally throws for a caught `error`
CatchError(error, timeout) ==
    IF InstanceOfElephantasmError(error) THEN error
    ELSE IF error.kind = "AbortError"
    THEN ElephantasmError(<<"Request timeout after ", ToString(timeout), "ms">>, None)
    ELSE ElephantasmError(<<"Request failed: ">> \o ErrorToString(error), None)

(***************************************************************************)
(* Client facade: helpers                                                  *)
(***************************************************************************)
AnimaIdRequiredMessage ==
    <<"anima_id required", ". Set ELEPHANTASM_ANIMA_ID env var, pass to constructor, or pass to method.">>

\* mutant: the configured default wins over the identifier passed to the call
GetAnimaId_DefaultFirst(providedId, defaultAnimaId) ==
    LET animaId == OrStr(defaultAnimaId, providedId)
    IN  IF ~TruthyStr(animaId)
        THEN [threw |-> TRUE, value |-> << >>,
              error |-> Some(JsError("Error", AnimaIdRequiredMessage))]
        ELSE [threw |-> FALSE, value |-> animaId[1], error |-> None]

\* mutant: getAnimaId without its check, returning whatever it has
GetAnimaId_NoCheck(providedId, defaultAnimaId) ==
    LET animaId == OrStr(providedId, defaultAnimaId)
    IN  [threw |-> FALSE, value |-> IF TruthyStr(animaId) THEN animaId[1] ELSE << >>,
         error |-> None]

\* getAnimaId: the identifier, or the Error it throws
GetAnimaId(providedId, defaultAnimaId) ==
    LET animaId == OrStr(providedId, defaultAnimaId)
    IN  IF ~TruthyStr(animaId)
        THEN [threw |-> TRUE, value |-> << >>,
              error |-> Some(JsError("Error", AnimaIdRequiredMessage))]
        ELSE [threw |-> FALSE, value |-> animaId[1], error |-> None]

\* application/x-www-form-urlencoded serialisation of one atom of a value
FormEncodeAtom(a) ==
    IF a = " " THEN "+"
    ELSE IF a = "&" THEN "%26"
    ELSE IF a = "/" THEN "%2F"
    ELSE IF a = "=" THEN "%3D"
    ELSE IF a = "+" THEN "%2B"
    ELSE IF a = "%" THEN "%25"
    ELSE IF a = "?" THEN "%3F"
    ELSE IF a = "#" THEN "%23"
    ELSE a

FormEncode(s) == [i \in 1..Len(s) |-> FormEncodeAtom(s[i])]

\* mutant: both parameters are always set, an absent one with an empty value
InjectQueryString_EmptyValues(options) ==
    LET q == << <<"query", "=">>
                \o (IF TruthyStr(options.query) THEN FormEncode(options.query[1]) ELSE << >>) >>
        p == << <<"preset", "=">>
                \o (IF TruthyStr(options.preset) THEN FormEncode(options.preset[1]) ELSE << >>) >>
    IN  Join(q \o p, <<"&">>)

\* params.toString() after the two conditional params.set calls of inject
InjectQueryString(options) ==
    LET q == IF TruthyStr(options.query)
             THEN << <<"query", "=">> \o FormEncode(options.query[1]) >> ELSE << >>
        p == IF TruthyStr(options.preset)
             THEN << <<"preset", "=">> \o FormEncode(options.preset[1]) >> ELSE << >>
    IN  Join(q \o p, <<"&">>)

\* the path template of inject
InjectPath(animaId, queryString) ==
    <<"/", "animas", "/">> \o animaId \o <<"/", "memory-packs", "/", "latest">>
    \o (IF queryString # << >> THEN <<"?">> \o queryString ELSE << >>)

\* mutant: the key is always assigned, with an empty value when nothing was given
Field_Always(key, opt) == key :> (IF opt # None THEN opt[1] ELSE << >>)

\* one conditional assignment data.key = value (skipped when value is undefined)
Field(key, opt) == IF opt # None THEN key :> opt[1] ELSE << >>

\* the AnimaCreate object of createAnima
AnimaCreateData(name, description, meta) ==
    ("name" :> name) @@ Field("description", description) @@ Field("meta", meta)

\* the EventCreate object of extract
EventCreateData(animaId, eventTypeValue, content, options) ==
    ("anima_id" :> animaId) @@ ("event_type" :> eventTypeValue) @@ ("content" :> content)
    @@ Field("session_id", options.sessionId)
    @@ Field("role", options.role)
    @@ Field("author", options.author)
    @@ Field("occurred_at", options.occurredAt)
    @@ Field("meta", options.meta)
    @@ Field("importance_score", options.importanceScore)

(***************************************************************************)
(* JSON values of a response body, and the pack accessors                  *)
(***************************************************************************)
\* a member of a parsed body as JavaScript reads it
Undefined == [t |-> "undefined", v |-> << >>]

JsonNull == [t |-> "null", v |-> << >>]

JsonString(s) == [t |-> "string", v |-> s]

JsonArray(a) == [t |-> "array", v |-> a]

JsonObject(o) == [t |-> "object", v |-> o]

\* JavaScript truthiness: objects and arrays always, a string unless empty
TruthyJson(a) == a.t \in {"array", "object"} \/ (a.t = "string" /\ a.v # << >>)

\* a || b
OrJson(a, b) == IF TruthyJson(a) THEN a ELSE b

\* the object literal {} read at the keys of MemoryPackContent
EmptyObject ==
    [context |-> Undefined, identity |-> Undefined, session_memories |-> Undefined,
     knowledge |-> Undefined, long_term_memories |-> Undefined,
     temporal_context |-> Undefined]

\* obj.key: a TypeError when obj is undefined or null
GetMember(obj, key) ==
    IF obj.t = "object"
    THEN [threw |-> FALSE, value |-> obj.v[key]]
    ELSE [threw |-> TRUE, value |-> Undefined]

\* the value the method returns, or the TypeError of its member access
OrDefault(m, default) ==
    IF m.threw THEN m ELSE [threw |-> FALSE, value |-> OrJson(m.value, default)]

\* mutant: the content is taken as the server sent it
PackContent_NoDefault(pack) == pack.content

\* const content = pack.content || {}
PackContent(pack) == OrJson(pack.content, JsonObject(EmptyObject))

AsPrompt(content) == OrDefault(GetMember(content, "context"), JsonString(<< >>))

GetIdentity(content) == GetMember(content, "identity")

GetSessionMemories(content) ==
    OrDefault(GetMember(content, "session_memories"), JsonArray(<< >>))

GetKnowledge(content) == OrDefault(GetMember(content, "knowledge"), JsonArray(<< >>))

GetLongTermMemories(content) ==
    OrDefault(GetMember(content, "long_term_memories"), JsonArray(<< >>))

GetTemporalContext(content) == GetMember(content, "temporal_context")

\* the methods wrapMemoryPack adds to the pack, each by what a call of it gives
WrapMemoryPack(pack) ==
    LET content == PackContent(pack)
    IN  [asPrompt            |-> AsPrompt(content),
         getIdentity         |-> GetIdentity(content),
         getSessionMemories  |-> GetSessionMemories(content),
         getKnowledge        |-> GetKnowledge(content),
         getLongTermMemories |-> GetLongTermMemories(content),
         getTemporalContext  |-> GetTemporalContext(content)]

\* mutant: a null body is wrapped like a pack
InjectResult_AlwaysWrap(json) ==
    [null |-> FALSE, wrapped |-> TRUE, json |-> json, methods |-> << >>]

\* what inject returns for the parsed body: null, or the pack with its accessors
InjectResult(json) ==
    IF json.null THEN [null |-> TRUE, wrapped |-> FALSE, json |-> json, methods |-> << >>]
    ELSE [null |-> FALSE, wrapped |-> TRUE, json |-> json,
          methods |-> WrapMemoryPack(json)]

\* what createAnima and extract return: the parsed body as it is
PlainResult(json) ==
    [null |-> json.null, wrapped |-> FALSE, json |-> json, methods |-> << >>]

(***************************************************************************)
(* The invocation in progress                                              *)
(***************************************************************************)
NoArgs ==
    [name |-> None, description |-> None, meta |-> None,
     animaId |-> None, query |-> None, preset |-> None,
     eventType |-> None, content |-> None,
     sessionId |-> None, role |-> None, author |-> None,
     occurredAt |-> None, importanceScore |-> None]

IdleCall ==
    [pc |-> "idle", op |-> "none", args |-> NoArgs, request |-> None,
     timer |-> "unset", aborted |-> FALSE, overdue |-> FALSE, fetches |-> 0,
     response |-> None, body |-> None, outcome |-> None]

\* no call has been made without awaiting
NoInflight == [i \in 1..MaxInflight |-> IdleCall]

\* index.ts as loaded: `let defaultClient = null`, getClient() never called
NoModule ==
    [defaultClient |-> None, constructed |-> 0, failed |-> 0,
     via |-> [i \in 1..MaxInflight |-> 0]]

Resolved(value) == Some([state |-> "resolved", value |-> Some(value), error |-> None])

Rejected(error) == Some([state |-> "rejected", value |-> None, error |-> Some(error)])

\* an operation that throws before it reaches request(): the promise rejects
RejectedEarly(op, args, error) ==
    [IdleCall EXCEPT !.pc = "settled", !.op = op, !.args = args,
                     !.outcome = Rejected(error)]

\* request() up to its first await: controller, timer, fetch(url, init)
Issued(op, args, c, path, method, body) ==
    [IdleCall EXCEPT
        !.pc = "fetching", !.op = op, !.args = args,
        !.timer = "armed", !.fetches = 1,
        !.request = Some([url     |-> RequestUrl(c.endpoint, path),
                          method  |-> method,
                          headers |-> RequestHeaders(c.apiKey, << >>),
                          body    |-> body])]

CanInvoke ==
    /\ client # None
    /\ call.pc \in {"idle", "settled"}
    /\ invocations < MaxCalls

(***************************************************************************)
(* Inputs                                                                  *)
(***************************************************************************)
NoEnv ==
    [ELEPHANTASM_API_KEY |-> None, ELEPHANTASM_ANIMA_ID |-> None,
     ELEPHANTASM_ENDPOINT |-> None, ELEPHANTASM_TIMEOUT |-> None]

\* process environments of the client specification
Envs ==
    {NoEnv,
     [NoEnv EXCEPT !.ELEPHANTASM_API_KEY = Some(<<"sk_env">>),
                   !.ELEPHANTASM_ANIMA_ID = Some(<<"anima-env">>)]}

BaseConfig ==
    [apiKey |-> Some(<<"sk_cfg">>), animaId |-> None, endpoint |-> None, timeout |-> None]

\* config objects of the client specification: BaseConfig with one field changed
Configs ==
    {BaseConfig,
     [BaseConfig EXCEPT !.apiKey = None],
     [BaseConfig EXCEPT !.animaId = Some(<<"anima-cfg">>)],
     [BaseConfig EXCEPT !.timeout = Some(5)]}
    \cup {[BaseConfig EXCEPT !.endpoint = Some(e)] :
            e \in {<<"http:", "/", "/", "host">>,
                   <<"http:", "/", "/", "host", "/">>,
                   <<"http:", "/", "/", "host", "/", "/">>}}

AnimaIdArgs == {None, Some(<< >>), Some(<<"anima-arg">>)}

Names == {<< >>, <<"Agent">>}

Descriptions == {None, Some(<<"helper">>)}

Metas == {None}

InjectOptionSets ==
    [animaId : AnimaIdArgs,
     query   : {None},
     preset  : {None, Some(<<"brief">>)}]

EventTypeTokens ==
    { MESSAGE_IN_VALUE,
      <<"T","o","o","l","_","C","a","l","l">>,
      <<"M","e","s","s","a","g","e",".","I","n">> }

Contents == {<<"Hello!">>}

NoExtras ==
    [sessionId |-> None, role |-> None, author |-> None,
     occurredAt |-> None, meta |-> None, importanceScore |-> None]

AllExtras ==
    [sessionId |-> Some(<<"session-123">>), role |-> Some(<<"user">>),
     author |-> Some(<<"john">>), occurredAt |-> Some(<<"2026-01-12T10:00:00Z">>),
     meta |-> Some([k |-> "v"]), importanceScore |-> Some(0)]

ExtractOptionSets ==
    { [animaId |-> a] @@ NoExtras : a \in AnimaIdArgs }
    \cup { [animaId |-> Some(<<"anima-arg">>)] @@ AllExtras }

\* options of inject for the query-string specification: absent, empty, plain,
\* and values holding the characters the serialisation has to escape
InjectQueries ==
    {None, Some(<< >>), Some(<<"pets">>), Some(<<"a", " ", "b">>),
     Some(<<"x", "&", "preset", "=", "y">>)}

InjectPresets ==
    {None, Some(<< >>), Some(<<"brief">>), Some(<<"50", "%", "+", "?", "#">>)}

WideInjectOptionSets ==
    [animaId : AnimaIdArgs, query : InjectQueries, preset : InjectPresets]

\* tokens of the extract specification: every letter-casing of every alias and of
\* every canonical value, and strings that are neither
OtherEventTypeTokens ==
    { << >>,
      <<"i","n","v","a","l","i","d">>,
      <<"T","O","O","L","_","C","A","L","L","_","E","X","T","R","A">>,
      <<"T","O","O","L","_","C","A","L">>,
      <<"t","o","o","l","-","c","a","l","l">>,
      <<"t","o","o","l",".","c","a","l","l"," ">>,
      <<"m","e","s","s","a","g","e","i","n">>,
      <<"s","y","s","t","e","m","s">> }

WideEventTypeTokens ==
    UNION {Casings(a[1]) : a \in EVENT_TYPE_ALIASES}
    \cup UNION {Casings(v) : v \in VALID_EVENT_TYPES}
    \cup OtherEventTypeTokens

WideContents == {<< >>, <<"Hello!">>, <<" say ", "\"", "hi", "\"", " ">>}

\* options of extract: each optional field absent, falsy, or filled
WideExtractOptionSets ==
    [animaId         : {None, Some(<<"anima-arg">>)},
     sessionId       : {None, Some(<< >>), Some(<<"session-123">>)},
     role            : {None, Some(<<"user">>)},
     author          : {None, Some(<< >>)},
     occurredAt      : {None, Some(<<"2026-01-12T10:00:00Z">>)},
     meta            : {None, Some([k |-> "v"])},
     importanceScore : {None, Some(0), Some(1)}]

\* arguments of createAnima for the createAnima specification: names the server
\* would refuse among them, each optional argument absent, empty, or filled
WideNames == {<< >>, <<" ">>, <<"Agent">>}

WideDescriptions == {None, Some(<< >>), Some(<<"helper">>)}

WideMetas == {None, Some([k |-> "v"])}

AnimaStatuses == {200, 201, 422}

\* what the server may answer
Statuses == {200, 401, 404, 418, 422, 429, 500, 502}

StatusTexts == {<<"Status Phrase">>}

JNull == [null |-> TRUE, detail |-> None, content |-> Undefined]

Jsons ==
    {JNull} \cup [null : {FALSE}, detail : {None, Some(<< >>), Some(<<"server detail">>)},
                  content : {Undefined}]

(***************************************************************************)
(* Construction                                                            *)
(***************************************************************************)
\* new Elephantasm(cfg)
Construct(cfg) ==
    /\ config = None
    /\ config' = Some(cfg)
    /\ client' = Constructor(cfg, env).instance
    /\ thrown' = Constructor(cfg, env).error
    /\ UNCHANGED <<env, call, invocations, wire, inflight, module>>

(***************************************************************************)
(* The three public operations, up to their first await                    *)
(***************************************************************************)
\* mutant: an empty name is refused before anything is sent
CreateAnima_ValidatesName(name, description, meta) ==
    /\ CanInvoke
    /\ LET args == [NoArgs EXCEPT !.name = Some(name), !.description = description,
                                  !.meta = meta]
       IN  IF name = << >>
           THEN /\ call' = RejectedEarly("createAnima", args,
                                         ValidationError(<<"name required">>))
                /\ wire' = wire
           ELSE /\ call' = Issued("createAnima", args, client[1], <<"/", "animas">>, "POST",
                                  Some(AnimaCreateData(name, description, meta)))
                /\ wire' = wire + 1
    /\ invocations' = invocations + 1
    /\ UNCHANGED <<env, config, client, thrown, inflight, module>>

CreateAnima(name, description, meta) ==
    /\ CanInvoke
    /\ LET args == [NoArgs EXCEPT !.name = Some(name), !.description = description,
                                  !.meta = meta]
       IN  call' = Issued("createAnima", args, client[1], <<"/", "animas">>, "POST",
                          Some(AnimaCreateData(name, description, meta)))
    /\ invocations' = invocations + 1
    /\ wire' = wire + 1
    /\ UNCHANGED <<env, config, client, thrown, inflight, module>>

\* mutant: an identifier passed to inject becomes the default of later calls
Inject_StickyOverride(options) ==
    /\ CanInvoke
    /\ LET args == [NoArgs EXCEPT !.animaId = options.animaId, !.query = options.query,
                                  !.preset = options.preset]
           id   == GetAnimaId(options.animaId, client[1].defaultAnimaId)
       IN  IF id.threw
           THEN /\ call' = RejectedEarly("inject", args, id.error[1])
                /\ wire' = wire
           ELSE /\ call' = Issued("inject", args, client[1],
                                  InjectPath(id.value, InjectQueryString(options)),
                                  "GET", None)
                /\ wire' = wire + 1
    /\ invocations' = invocations + 1
    /\ client' = IF TruthyStr(options.animaId)
                 THEN Some([client[1] EXCEPT !.defaultAnimaId = options.animaId])
                 ELSE client
    /\ UNCHANGED <<env, config, thrown, inflight, module>>

Inject(options) ==
    /\ CanInvoke
    /\ LET args == [NoArgs EXCEPT !.animaId = options.animaId, !.query = options.query,
                                  !.preset = options.preset]
           id   == GetAnimaId(options.animaId, client[1].defaultAnimaId)
       IN  IF id.threw
           THEN /\ call' = RejectedEarly("inject", args, id.error[1])
                /\ wire' = wire
           ELSE /\ call' = Issued("inject", args, client[1],
                                  InjectPath(id.value, InjectQueryString(options)),
                                  "GET", None)
                /\ wire' = wire + 1
    /\ invocations' = invocations + 1
    /\ UNCHANGED <<env, config, client, thrown, inflight, module>>

\* mutant: the token is sent as the caller wrote it once it has been accepted
Extract_RawEventType(eventType, content, options) ==
    /\ CanInvoke
    /\ LET args == [NoArgs EXCEPT !.eventType = Some(eventType), !.content = Some(content),
                                  !.animaId = options.animaId,
                                  !.sessionId = options.sessionId, !.role = options.role,
                                  !.author = options.author,
                                  !.occurredAt = options.occurredAt,
                                  !.meta = options.meta,
                                  !.importanceScore = options.importanceScore]
           id   == GetAnimaId(options.animaId, client[1].defaultAnimaId)
           et   == ResolveEventType(eventType)
       IN  IF id.threw
           THEN /\ call' = RejectedEarly("extract", args, id.error[1])
                /\ wire' = wire
           ELSE IF et.threw
           THEN /\ call' = RejectedEarly("extract", args, et.error[1])
                /\ wire' = wire
           ELSE /\ call' = Issued("extract", args, client[1], <<"/", "events">>, "POST",
                                  Some(EventCreateData(id.value, eventType, content, options)))
                /\ wire' = wire + 1
    /\ invocations' = invocations + 1
    /\ UNCHANGED <<env, config, client, thrown, inflight, module>>

Extract(eventType, content, options) ==
    /\ CanInvoke
    /\ LET args == [NoArgs EXCEPT !.eventType = Some(eventType), !.content = Some(content),
                                  !.animaId = options.animaId,
                                  !.sessionId = options.sessionId, !.role = options.role,
                                  !.author = options.author,
                                  !.occurredAt = options.occurredAt,
                                  !.meta = options.meta,
                                  !.importanceScore = options.importanceScore]
           id   == GetAnimaId(options.animaId, client[1].defaultAnimaId)
           et   == ResolveEventType(eventType)
       IN  IF id.threw
           THEN /\ call' = RejectedEarly("extract", args, id.error[1])
                /\ wire' = wire
           ELSE IF et.threw
           THEN /\ call' = RejectedEarly("extract", args, et.error[1])
                /\ wire' = wire
           ELSE /\ call' = Issued("extract", args, client[1], <<"/", "events">>, "POST",
                                  Some(EventCreateData(id.value, et.value, content, options)))
                /\ wire' = wire + 1
    /\ invocations' = invocations + 1
    /\ UNCHANGED <<env, config, client, thrown, inflight, module>>

(***************************************************************************)
(* request() after its first await                                         *)
(***************************************************************************)
\* what request() (and the operation on top of it) settles with once the body
\* read has ended: body.parsed tells whether response.json() fulfilled
SettleAfterBody(op, response, body, timeout) ==
    IF ResponseOk(response.status)
    THEN IF body.parsed
         THEN Resolved(IF op = "inject" THEN InjectResult(body.json)
                                        ELSE PlainResult(body.json))
         ELSE Rejected(CatchError(JsError("SyntaxError", <<"Unexpected token">>), timeout))
    ELSE Rejected(CatchError(MapStatus(response.status,
                                       ErrorDetail(body, response.statusText)),
                             timeout))

\* fetch fulfils with a response: clearTimeout, then response.json() is awaited
FetchResponds(status, statusText) ==
    /\ call.pc = "fetching"
    /\ call' = [call EXCEPT !.pc = "body", !.timer = "cleared",
                            !.response = Some([status |-> status, statusText |-> statusText])]
    /\ UNCHANGED <<env, config, client, thrown, invocations, wire, inflight, module>>

\* mutant: a network error makes request() call fetch again
FetchRejects_Retry ==
    /\ call.pc = "fetching"
    /\ call' = [call EXCEPT !.fetches = call.fetches + 1]
    /\ wire' = wire + 1
    /\ UNCHANGED <<env, config, client, thrown, invocations, inflight, module>>

\* fetch rejects with a network error: the catch block
FetchRejects ==
    /\ call.pc = "fetching"
    /\ call' = [call EXCEPT !.pc = "settled", !.timer = "cleared",
                            !.outcome = Rejected(CatchError(
                                JsError("TypeError", <<"fetch failed">>),
                                client[1].timeout))]
    /\ UNCHANGED <<env, config, client, thrown, invocations, wire, inflight, module>>

\* the configured duration elapses while fetch is pending: the timer callback
\* runs controller.abort(), fetch rejects with AbortError, the catch block
TimerFires ==
    /\ call.pc = "fetching"
    /\ call.timer = "armed"
    /\ call' = [call EXCEPT !.pc = "settled", !.timer = "fired", !.aborted = TRUE,
                            !.outcome = Rejected(CatchError(
                                JsError("AbortError", <<"This operation was aborted">>),
                                client[1].timeout))]
    /\ UNCHANGED <<env, config, client, thrown, invocations, wire, inflight, module>>

\* response.json() fulfils with the parsed body
BodyParsed(json) ==
    /\ call.pc = "body"
    /\ LET b == [parsed |-> TRUE, json |-> json]
       IN  call' = [call EXCEPT !.pc = "settled", !.body = Some(b), !.overdue = FALSE,
                                !.outcome = SettleAfterBody(call.op, call.response[1], b,
                                                            client[1].timeout)]
    /\ UNCHANGED <<env, config, client, thrown, invocations, wire, inflight, module>>

\* response.json() rejects: the body is not JSON
BodyFails ==
    /\ call.pc = "body"
    /\ LET b == [parsed |-> FALSE, json |-> JNull]
       IN  call' = [call EXCEPT !.pc = "settled", !.body = Some(b), !.overdue = FALSE,
                                !.outcome = SettleAfterBody(call.op, call.response[1], b,
                                                            client[1].timeout)]
    /\ UNCHANGED <<env, config, client, thrown, invocations, wire, inflight, module>>

\* the configured duration elapses while the body is still being read: the timer
\* was cleared when the headers arrived, so nothing happens and the call is from
\* now on pending past its deadline (overdue) until the body read ends
DeadlinePasses ==
    /\ call.pc = "body"
    /\ call.timer # "armed"
    /\ ~call.overdue
    /\ call' = [call EXCEPT !.overdue = TRUE]
    /\ UNCHANGED <<env, config, client, thrown, invocations, wire, inflight, module>>

(***************************************************************************)
(* Calls in flight together. Each call of request() has its own controller *)
(* and timeoutId, so each slot of inflight carries its own timer and abort  *)
(* flag; the slots are taken in the order the calls are made.               *)
(***************************************************************************)
CanStart(i) ==
    /\ inflight[i].pc = "idle"
    /\ IF i = 1 THEN TRUE ELSE inflight[i - 1].pc # "idle"

\* the call extract leaves behind on the instance c, up to its first await
ExtractStarted(c, eventType, content, options) ==
    LET args == [NoArgs EXCEPT !.eventType = Some(eventType), !.content = Some(content),
                               !.animaId = options.animaId,
                               !.sessionId = options.sessionId, !.role = options.role,
                               !.author = options.author,
                               !.occurredAt = options.occurredAt,
                               !.meta = options.meta,
                               !.importanceScore = options.importanceScore]
        id   == GetAnimaId(options.animaId, c.defaultAnimaId)
        et   == ResolveEventType(eventType)
    IN  IF id.threw THEN RejectedEarly("extract", args, id.error[1])
        ELSE IF et.threw THEN RejectedEarly("extract", args, et.error[1])
        ELSE Issued("extract", args, c, <<"/", "events">>, "POST",
                    Some(EventCreateData(id.value, et.value, content, options)))

\* the call inject leaves behind on the instance c, up to its first await
InjectStarted(c, options) ==
    LET args == [NoArgs EXCEPT !.animaId = options.animaId, !.query = options.query,
                               !.preset = options.preset]
        id   == GetAnimaId(options.animaId, c.defaultAnimaId)
    IN  IF id.threw THEN RejectedEarly("inject", args, id.error[1])
        ELSE Issued("inject", args, c, InjectPath(id.value, InjectQueryString(options)),
                    "GET", None)

\* the call createAnima leaves behind on the instance c, up to its first await
CreateAnimaStarted(c, name, description, meta) ==
    Issued("createAnima",
           [NoArgs EXCEPT !.name = Some(name), !.description = description, !.meta = meta],
           c, <<"/", "animas">>, "POST", Some(AnimaCreateData(name, description, meta)))

\* 1 when the started call handed a request to fetch
Sent(c) == IF c.request # None THEN 1 ELSE 0

\* el.extract(...) inside Promise.all: called while earlier calls are pending
StartExtract(i, eventType, content, options) ==
    /\ client # None
    /\ CanStart(i)
    /\ LET c == ExtractStarted(client[1], eventType, content, options)
       IN  /\ inflight' = [inflight EXCEPT ![i] = c]
           /\ wire' = wire + Sent(c)
    /\ invocations' = invocations + 1
    /\ UNCHANGED <<env, config, client, thrown, call, module>>

\* the fetch of call i fulfils: its clearTimeout, then its response.json()
PendingFetchResponds(i, status, statusText) ==
    /\ inflight[i].pc = "fetching"
    /\ inflight' = [inflight EXCEPT ![i] =
                       [@ EXCEPT !.pc = "body", !.timer = "cleared",
                                 !.response = Some([status |-> status,
                                                    statusText |-> statusText])]]
    /\ UNCHANGED <<env, config, client, thrown, call, invocations, wire, module>>

\* the fetch of call i rejects with a network error: its catch block
PendingFetchRejects(i, timeout) ==
    /\ inflight[i].pc = "fetching"
    /\ inflight' = [inflight EXCEPT ![i] =
                       [@ EXCEPT !.pc = "settled", !.timer = "cleared",
                                 !.outcome = Rejected(CatchError(
                                     JsError("TypeError", <<"fetch failed">>), timeout))]]
    /\ UNCHANGED <<env, config, client, thrown, call, invocations, wire, module>>

\* mutant: one controller for all calls, so the timer of call i aborts every fetch
PendingTimerFires_SharedController(i, timeout) ==
    /\ inflight[i].timer = "armed"
    /\ inflight' = [k \in DOMAIN inflight |->
                       IF inflight[k].pc = "fetching"
                       THEN [inflight[k] EXCEPT
                                !.pc = "settled", !.aborted = TRUE,
                                !.timer = IF k = i THEN "fired" ELSE "cleared",
                                !.outcome = Rejected(CatchError(
                                    JsError("AbortError", <<"This operation was aborted">>),
                                    timeout))]
                       ELSE IF k = i
                       THEN [inflight[k] EXCEPT !.timer = "fired", !.aborted = TRUE]
                       ELSE inflight[k]]
    /\ UNCHANGED <<env, config, client, thrown, call, invocations, wire, module>>

\* the timer of call i runs its callback, controller.abort(), on the controller
\* of call i: a fetch still pending on that signal rejects with AbortError and
\* the catch block of call i runs
PendingTimerFires(i, timeout) ==
    /\ inflight[i].timer = "armed"
    /\ inflight' = [inflight EXCEPT ![i] =
                       IF @.pc = "fetching"
                       THEN [@ EXCEPT !.pc = "settled", !.timer = "fired", !.aborted = TRUE,
                                      !.outcome = Rejected(CatchError(
                                          JsError("AbortError",
                                                  <<"This operation was aborted">>),
                                          timeout))]
                       ELSE [@ EXCEPT !.timer = "fired", !.aborted = TRUE]]
    /\ UNCHANGED <<env, config, client, thrown, call, invocations, wire, module>>

\* response.json() of call i fulfils (json given) or rejects (json absent)
PendingBodyEnds(i, json, timeout) ==
    /\ inflight[i].pc = "body"
    /\ LET b == IF json # None THEN [parsed |-> TRUE, json |-> json[1]]
                ELSE [parsed |-> FALSE, json |-> JNull]
           c == inflight[i]
       IN  inflight' = [inflight EXCEPT ![i] =
                          [c EXCEPT !.pc = "settled", !.body = Some(b),
                                    !.outcome = SettleAfterBody(c.op, c.response[1], b,
                                                                timeout)]]
    /\ UNCHANGED <<env, config, client, thrown, call, invocations, wire, module>>

(***************************************************************************)
(* index.ts: the module-level functions and their lazily made client       *)
(***************************************************************************)
\* new Elephantasm() is called with no argument: config = {}
EmptyConfig == [apiKey |-> None, animaId |-> None, endpoint |-> None, timeout |-> None]

\* mutant: getClient builds a client on every call and keeps none
GetClient_NoMemo(m, e) ==
    LET made == Constructor(EmptyConfig, e)
    IN  IF made.threw
        THEN [threw |-> TRUE, error |-> made.error, id |-> 0, instance |-> None,
              module |-> [m EXCEPT !.failed = @ + 1]]
        ELSE [threw |-> FALSE, error |-> None, id |-> m.constructed + 1,
              instance |-> made.instance,
              module |-> [m EXCEPT !.constructed = @ + 1]]

\* getClient(): the memoized instance, or a new one that is memoized unless the
\* constructor throws
GetClient(m, e) ==
    IF m.defaultClient # None
    THEN [threw |-> FALSE, error |-> None, id |-> m.defaultClient[1].id,
          instance |-> Some(m.defaultClient[1].fields), module |-> m]
    ELSE LET made == Constructor(EmptyConfig, e)
         IN  IF made.threw
             THEN [threw |-> TRUE, error |-> made.error, id |-> 0, instance |-> None,
                   module |-> [m EXCEPT !.failed = @ + 1]]
             ELSE [threw |-> FALSE, error |-> None, id |-> m.constructed + 1,
                   instance |-> made.instance,
                   module |-> [m EXCEPT !.constructed = @ + 1,
                                        !.defaultClient =
                                            Some([id |-> m.constructed + 1,
                                                  fields |-> made.instance[1]])]]

\* a module-level function called as call i: getClient(), then the method on
\* the instance it returned; a throw of getClient() rejects the promise
ModuleCalled(i, g, op, args, started) ==
    /\ inflight' = [inflight EXCEPT ![i] =
                       IF g.threw THEN RejectedEarly(op, args, g.error[1]) ELSE started]
    /\ module' = [g.module EXCEPT !.via[i] = g.id]
    /\ wire' = wire + (IF g.threw THEN 0 ELSE Sent(started))
    /\ invocations' = invocations + 1
    /\ UNCHANGED <<env, config, client, thrown, call>>

\* createAnima(name) of index.ts
ModuleCreateAnima(i, name) ==
    /\ CanStart(i)
    /\ LET g == GetClient(module, env)
       IN  ModuleCalled(i, g, "createAnima", [NoArgs EXCEPT !.name = Some(name)],
                        IF g.threw THEN IdleCall
                        ELSE CreateAnimaStarted(g.instance[1], name, None, None))

\* inject(options) of index.ts
ModuleInject(i, options) ==
    /\ CanStart(i)
    /\ LET g == GetClient(module, env)
       IN  ModuleCalled(i, g, "inject",
                        [NoArgs EXCEPT !.animaId = options.animaId,
                                       !.query = options.query,
                                       !.preset = options.preset],
                        IF g.threw THEN IdleCall ELSE InjectStarted(g.instance[1], options))

\* extract(eventType, content) of index.ts
ModuleExtract(i, eventType, content) ==
    /\ CanStart(i)
    /\ LET g == GetClient(module, env)
       IN  ModuleCalled(i, g, "extract",
                        [NoArgs EXCEPT !.eventType = Some(eventType),
                                       !.content = Some(content)],
                        IF g.threw THEN IdleCall
                        ELSE ExtractStarted(g.instance[1], eventType, content,
                                            [animaId |-> None] @@ NoExtras))

\* the program changes process.env between two calls (dotenv, a later assignment)
EnvChanges(e) ==
    /\ e # env
    /\ env' = e
    /\ UNCHANGED <<config, client, thrown, call, invocations, wire, inflight, module>>

(***************************************************************************)
(* Specification of one client and its invocations                         *)
(***************************************************************************)
Init ==
    /\ env \in Envs
    /\ config = None
    /\ client = None
    /\ thrown = None
    /\ call = IdleCall
    /\ invocations = 0
    /\ wire = 0
    /\ inflight = NoInflight
    /\ module = NoModule

Next ==
    \/ \E cfg \in Configs : Construct(cfg)
    \/ \E n \in Names, d \in Descriptions, m \in Metas : CreateAnima(n, d, m)
    \/ \E o \in InjectOptionSets : Inject(o)
    \/ \E t \in EventTypeTokens, c \in Contents, o \in ExtractOptionSets : Extract(t, c, o)
    \/ \E s \in Statuses, p \in StatusTexts : FetchResponds(s, p)
    \/ FetchRejects
    \/ TimerFires
    \/ \E j \in Jsons : BodyParsed(j)
    \/ BodyFails
    \/ DeadlinePasses

Spec == Init /\ [][Next]_vars

(***************************************************************************)
(* Specification of the constructor alone, over wider configurations       *)
(***************************************************************************)
\* ELEPHANTASM_TIMEOUT is a variable the environment may hold; its value is written
\* as the number its text denotes
CtorEnvs ==
    [ELEPHANTASM_API_KEY  : {None, Some(<< >>), Some(<<"sk_env">>)},
     ELEPHANTASM_ANIMA_ID : {None, Some(<< >>), Some(<<"anima-env">>)},
     ELEPHANTASM_ENDPOINT : {None, Some(<<"http:", "/", "/", "env-host", "/">>)},
     ELEPHANTASM_TIMEOUT  : {None, Some(7)}]

CtorConfigs ==
    [apiKey   : {None, Some(<< >>), Some(<<"sk_cfg">>)},
     animaId  : {None, Some(<< >>), Some(<<"anima-cfg">>)},
     endpoint : {None, Some(<< >>), Some(<<"/">>),
                 Some(<<"http:", "/", "/", "host">>),
                 Some(<<"http:", "/", "/", "host", "/">>),
                 Some(<<"http:", "/", "/", "host", "/", "/">>)},
     timeout  : {None, Some(0), Some(5)}]

CtorInit ==
    /\ env \in CtorEnvs
    /\ config = None
    /\ client = None
    /\ thrown = None
    /\ call = IdleCall
    /\ invocations = 0
    /\ wire = 0
    /\ inflight = NoInflight
    /\ module = NoModule

CtorNext == \E cfg \in CtorConfigs : Construct(cfg)

CtorSpec == CtorInit /\ [][CtorNext]_vars

(***************************************************************************)
(* inject on a constructed client, with the wide option sets               *)
(***************************************************************************)
AnimaConfig == [BaseConfig EXCEPT !.animaId = Some(<<"anima-cfg">>)]

InjectInit ==
    /\ env = NoEnv
    /\ config = Some(AnimaConfig)
    /\ client = Constructor(AnimaConfig, NoEnv).instance
    /\ thrown = None
    /\ call = IdleCall
    /\ invocations = 0
    /\ wire = 0
    /\ inflight = NoInflight
    /\ module = NoModule

InjectNext ==
    \/ \E o \in WideInjectOptionSets : Inject(o)
    \/ \E t \in StatusTexts : FetchResponds(200, t)
    \/ \E j \in Jsons : BodyParsed(j)

InjectSpec == InjectInit /\ [][InjectNext]_vars

(***************************************************************************)
(* inject answered with memory packs of every content shape                *)
(***************************************************************************)
PackContexts == {Undefined, JsonNull, JsonString(<< >>), JsonString(<<"You are a helper.">>)}

PackIdentities == {Undefined, JsonNull, JsonObject(<<"INTJ">>)}

PackSessionMemories ==
    {Undefined, JsonNull, JsonArray(<< >>), JsonArray(<<"session-1", "session-2">>)}

PackKnowledge ==
    {Undefined, JsonNull, JsonArray(<< >>), JsonArray(<<"fact-2", "fact-1">>)}

PackLongTermMemories ==
    {Undefined, JsonNull, JsonArray(<< >>), JsonArray(<<"memory-1">>)}

PackTemporalContexts == {Undefined, JsonNull, JsonObject(<<"3 hours ago">>)}

\* pack.content as the server may send it: missing, null, or an object with
\* any of its members missing or null
PackContents ==
    {Undefined, JsonNull}
    \cup {JsonObject(o) : o \in [context            : PackContexts,
                                 identity           : PackIdentities,
                                 session_memories   : PackSessionMemories,
                                 knowledge          : PackKnowledge,
                                 long_term_memories : PackLongTermMemories,
                                 temporal_context   : PackTemporalContexts]}

PackJsons == {JNull} \cup [null : {FALSE}, detail : {None}, content : PackContents]

PackInjectOptions == [animaId |-> None, query |-> None, preset |-> None]

PackNext ==
    \/ Inject(PackInjectOptions)
    \/ \E t \in StatusTexts : FetchResponds(200, t)
    \/ \E j \in PackJsons : BodyParsed(j)

PackSpec == InjectInit /\ [][PackNext]_vars

(***************************************************************************)
(* extract as the last call of a client, with the wide token and option    *)
(* sets                                                                    *)
(***************************************************************************)
\* the client after MaxCalls - 1 createAnima calls that were answered 200
LastCallInit ==
    /\ env = NoEnv
    /\ config = Some(AnimaConfig)
    /\ client = Constructor(AnimaConfig, NoEnv).instance
    /\ thrown = None
    /\ LET c == Constructor(AnimaConfig, NoEnv).instance[1]
           a == [NoArgs EXCEPT !.name = Some(<<"Agent">>)]
           r == [status |-> 200, statusText |-> <<"Status Phrase">>]
           b == [parsed |-> TRUE,
                 json |-> [null |-> FALSE, detail |-> None, content |-> Undefined]]
       IN  call = [Issued("createAnima", a, c, <<"/", "animas">>, "POST",
                          Some(AnimaCreateData(<<"Agent">>, None, None)))
                   EXCEPT !.pc = "settled", !.timer = "cleared",
                          !.response = Some(r), !.body = Some(b),
                          !.outcome = SettleAfterBody("createAnima", r, b, c.timeout)]
    /\ invocations = MaxCalls - 1
    /\ wire = MaxCalls - 1
    /\ inflight = NoInflight
    /\ module = NoModule

ExtractNext ==
    \/ \E t \in WideEventTypeTokens :
          Extract(t, <<"Hello!">>, [animaId |-> None] @@ NoExtras)
    \/ \E t \in {MESSAGE_IN_VALUE, <<"T","o","o","l","_","C","a","l","l">>},
          c \in WideContents, o \in WideExtractOptionSets : Extract(t, c, o)

ExtractSpec == LastCallInit /\ [][ExtractNext]_vars

(***************************************************************************)
(* createAnima on a constructed client, with the wide argument sets        *)
(***************************************************************************)
AnimaNext ==
    \/ \E n \in WideNames, d \in WideDescriptions, m \in WideMetas : CreateAnima(n, d, m)
    \/ \E s \in AnimaStatuses, t \in StatusTexts : FetchResponds(s, t)
    \/ \E j \in Jsons : BodyParsed(j)

AnimaSpec == InjectInit /\ [][AnimaNext]_vars

(***************************************************************************)
(* Two or more extract calls made together on one client (Promise.all)     *)
(***************************************************************************)
ConcStatuses == {200, 404}

ConcJsons == {JNull, [null |-> FALSE, detail |-> Some(<<"server detail">>),
                      content |-> Undefined]}

ConcNext ==
    \/ \E i \in 1..MaxInflight, t \in {MESSAGE_IN_VALUE, MESSAGE_OUT_VALUE} :
          StartExtract(i, t, <<"Hello!">>, [animaId |-> None] @@ NoExtras)
    \/ \E i \in 1..MaxInflight, s \in ConcStatuses, t \in StatusTexts :
          PendingFetchResponds(i, s, t)
    \/ \E i \in 1..MaxInflight : PendingFetchRejects(i, client[1].timeout)
    \/ \E i \in 1..MaxInflight : PendingTimerFires(i, client[1].timeout)
    \/ \E i \in 1..MaxInflight, j \in {None} \cup {Some(x) : x \in ConcJsons} :
          PendingBodyEnds(i, j, client[1].timeout)

ConcSpec == InjectInit /\ [][ConcNext]_vars

(***************************************************************************)
(* The module-level functions, called in any order while earlier calls are *)
(* pending, with the environment changing in between                       *)
(***************************************************************************)
ModuleInit ==
    /\ env \in Envs
    /\ config = None
    /\ client = None
    /\ thrown = None
    /\ call = IdleCall
    /\ invocations = 0
    /\ wire = 0
    /\ inflight = NoInflight
    /\ module = NoModule

\* this.timeout of a client built by getClient()
ModuleTimeout == ConstructorFields(EmptyConfig, env).timeout

ModuleNext ==
    \/ \E i \in 1..MaxInflight, n \in Names : ModuleCreateAnima(i, n)
    \/ \E i \in 1..MaxInflight : ModuleInject(i, PackInjectOptions)
    \/ \E i \in 1..MaxInflight, t \in EventTypeTokens : ModuleExtract(i, t, <<"Hello!">>)
    \/ \E e \in Envs : EnvChanges(e)
    \/ \E i \in 1..MaxInflight, t \in StatusTexts : PendingFetchResponds(i, 200, t)
    \/ \E i \in 1..MaxInflight : PendingTimerFires(i, ModuleTimeout)
    \/ \E i \in 1..MaxInflight : PendingBodyEnds(i, Some(JNull), ModuleTimeout)

ModuleSpec == ModuleInit /\ [][ModuleNext]_vars

(***************************************************************************)
(* Claims                                                                  *)
(***************************************************************************)

\* C1: a call that received a non-2xx response and settled is rejected with the
\* kind (and status code) fixed by the response status alone: 401, 404, 422, 429
\* give their own kind and code, every status >= 500 gives ServerError, every
\* other status gives the base ElephantasmError carrying that status; whether
\* the error body parsed as JSON makes no difference.
C1_StatusDeterminesKind ==
    (call.pc = "settled" /\ call.response # None
        /\ ~(call.response[1].status \in 200..299))
    => /\ call.outcome # None
       /\ call.outcome[1].state = "rejected"
       /\ LET st == call.response[1].status
              e  == call.outcome[1].error[1]
          IN  /\ st = 401 => e.kind = "AuthenticationError" /\ e.statusCode = <<401>>
              /\ st = 404 => e.kind = "NotFoundError" /\ e.statusCode = <<404>>
              /\ st = 422 => e.kind = "ValidationError" /\ e.statusCode = <<422>>
              /\ st = 429 => e.kind = "RateLimitError" /\ e.statusCode = <<429>>
              /\ st >= 500 => e.kind = "ServerError"
              /\ (st \notin {401, 404, 422, 429} /\ st < 500)
                    => e.kind = "ElephantasmError" /\ e.statusCode = <<st>>

\* C1 witness: a 500 answer whose body is not JSON has been turned into a ServerError
C1_Witness ==
    /\ call.pc = "settled"
    /\ call.response # None
    /\ call.response[1].status = 500
    /\ call.body # None
    /\ ~call.body[1].parsed
    /\ call.outcome[1].state = "rejected"
    /\ call.outcome[1].error[1].kind = "ServerError"

\* C2: every failure that crosses the public boundary (thrown by the constructor
\* or rejecting an operation) is an ElephantasmError or one of its subclasses,
\* the missing-anima-identifier failure included.
C2_AllFailuresTyped ==
    /\ thrown # None => InstanceOfElephantasmError(thrown[1])
    /\ (call.outcome # None /\ call.outcome[1].state = "rejected")
          => InstanceOfElephantasmError(call.outcome[1].error[1])

\* C3: when the timer of a call fires, the fetch is aborted and the call rejects
\* with the base ElephantasmError, no status code, and the message
\* 'Request timeout after <configured timeout>ms'.
C3_TimeoutRejection ==
    call.timer = "fired"
    => /\ call.aborted
       /\ call.pc = "settled"
       /\ call.outcome # None
       /\ call.outcome[1].state = "rejected"
       /\ call.outcome[1].error[1].kind = "ElephantasmError"
       /\ call.outcome[1].error[1].statusCode = None
       /\ call.outcome[1].error[1].message
              = <<"Request timeout after ", ToString(client[1].timeout), "ms">>

\* C3 witness: a client configured with timeout 5 has had a call time out
C3_Witness ==
    /\ call.timer = "fired"
    /\ config[1].timeout = <<5>>
    /\ call.outcome[1].error[1].message = <<"Request timeout after ", "5", "ms">>

\* C4: no call is still pending once the configured timeout has elapsed since
\* it was issued, whatever the server does.
C4_BoundedByTimeout ==
    call.pc \in {"fetching", "body"} => ~call.overdue

\* C5: an invocation calls fetch at most once, exactly once when its inputs
\* resolve, never again after the request has failed, and it has exactly one
\* outcome once settled and none before.
C5_NoRetries ==
    /\ wire <= invocations
    /\ call.fetches <= 1
    /\ (call.pc = "settled") <=> (call.outcome # None)
    /\ call.op # "none" =>
         LET idAvailable == TruthyStr(call.args.animaId)
                            \/ TruthyStr(client[1].defaultAnimaId)
             resolves == \/ call.op = "createAnima"
                         \/ call.op = "inject" /\ idAvailable
                         \/ /\ call.op = "extract"
                            /\ idAvailable
                            /\ ~ResolveEventType(call.args.eventType[1]).threw
         IN  /\ call.fetches = IF resolves THEN 1 ELSE 0
             /\ (call.request # None) <=> resolves

\* C5 witness: the second invocation has failed on a network error after one fetch
C5_Witness ==
    /\ invocations = 2
    /\ wire = 2
    /\ call.pc = "settled"
    /\ call.response = None
    /\ call.timer = "cleared"
    /\ call.outcome[1].state = "rejected"
    /\ call.fetches = 1

\* C6: every request handed to fetch carries Authorization = 'Bearer ' + the
\* client's credential and Content-Type = 'application/json', and no other header.
C6_DefaultHeaders ==
    call.request # None
    => LET h == call.request[1].headers
       IN  /\ DOMAIN h = {"Authorization", "Content-Type"}
           /\ h["Authorization"] = <<"Bearer ">> \o client[1].apiKey
           /\ h["Content-Type"] = <<"application/json">>

\* C6 witness: a request is out that carries the credential read from the environment
C6_Witness ==
    /\ call.request # None
    /\ config[1].apiKey = None
    /\ call.request[1].headers["Authorization"] = <<"Bearer ", "sk_env">>

\* C7: constructing with no credential in the config and none in the environment
\* throws AuthenticationError ('API key required ...'), leaves no instance, and
\* no operation runs and no request is issued.
C7_NoCredentialThrows ==
    (config # None /\ config[1].apiKey = None /\ env.ELEPHANTASM_API_KEY = None)
    => /\ thrown # None
       /\ thrown[1].kind = "AuthenticationError"
       /\ thrown[1].message[1] = "API key required"
       /\ client = None
       /\ call = IdleCall
       /\ invocations = 0
       /\ wire = 0

\* C7 witness: the constructor has been called with no credential anywhere
C7_Witness ==
    /\ config # None
    /\ config[1].apiKey = None
    /\ env.ELEPHANTASM_API_KEY = None
    /\ thrown # None

\* C8 as claimed: each of the four values is the config value if supplied, else
\* the value of its environment variable if set, else its default (an empty
\* string or 0 read as not supplied, the endpoint taken before slash-stripping).
C8_Original ==
    client # None
    => LET cfg == config[1]
           c   == client[1]
       IN  /\ c.apiKey = IF TruthyStr(cfg.apiKey) THEN cfg.apiKey[1]
                         ELSE env.ELEPHANTASM_API_KEY[1]
           /\ c.defaultAnimaId = IF TruthyStr(cfg.animaId) THEN cfg.animaId
                                 ELSE env.ELEPHANTASM_ANIMA_ID
           /\ c.endpoint = StripTrailingSlash(
                              IF TruthyStr(cfg.endpoint) THEN cfg.endpoint[1]
                              ELSE IF TruthyStr(env.ELEPHANTASM_ENDPOINT)
                                   THEN env.ELEPHANTASM_ENDPOINT[1]
                                   ELSE <<"https:", "/", "/", "api.elephantasm.com">>)
           /\ c.timeout = IF cfg.timeout # None /\ cfg.timeout # <<0>> THEN cfg.timeout[1]
                          ELSE IF env.ELEPHANTASM_TIMEOUT # None
                               THEN env.ELEPHANTASM_TIMEOUT[1]
                               ELSE 30000

\* C8 amended: credential, anima identifier and endpoint are the config value if
\* supplied and non-empty, else the value of the environment variable, else the
\* default; the timeout is the config value if supplied and non-zero, else
\* 30000: no environment variable is read for it.
C8_Amended ==
    client # None
    => LET cfg == config[1]
           c   == client[1]
       IN  /\ c.apiKey = IF TruthyStr(cfg.apiKey) THEN cfg.apiKey[1]
                         ELSE env.ELEPHANTASM_API_KEY[1]
           /\ c.apiKey # << >>
           /\ c.defaultAnimaId = IF TruthyStr(cfg.animaId) THEN cfg.animaId
                                 ELSE env.ELEPHANTASM_ANIMA_ID
           /\ c.endpoint = StripTrailingSlash(
                              IF TruthyStr(cfg.endpoint) THEN cfg.endpoint[1]
                              ELSE IF TruthyStr(env.ELEPHANTASM_ENDPOINT)
                                   THEN env.ELEPHANTASM_ENDPOINT[1]
                                   ELSE <<"https:", "/", "/", "api.elephantasm.com">>)
           /\ c.timeout = IF cfg.timeout # None /\ cfg.timeout # <<0>> THEN cfg.timeout[1]
                          ELSE 30000

\* C8 witness: a client built with no timeout in the config while the environment
\* holds a timeout variable, the config credential beating the environment's
C8_Witness ==
    /\ client # None
    /\ config[1].timeout = None
    /\ env.ELEPHANTASM_TIMEOUT = <<7>>
    /\ client[1].timeout = 30000
    /\ env.ELEPHANTASM_API_KEY = <<<<"sk_env">>>>
    /\ client[1].apiKey = <<"sk_cfg">>

\* C9 as claimed: the URL of every request is the effective endpoint, then
\* '/api', then the path of the operation; the effective endpoint is the
\* configured endpoint with its trailing slash stripped and never ends with '/'.
C9_Original ==
    /\ client # None => LET e == client[1].endpoint IN Len(e) = 0 \/ e[Len(e)] # "/"
    /\ call.request # None
       => LET url  == call.request[1].url
              e    == client[1].endpoint
              path == SubSeq(url, Len(e) + 3, Len(url))
          IN  /\ Len(url) >= Len(e) + 2
              /\ SubSeq(url, 1, Len(e)) = e
              /\ SubSeq(url, Len(e) + 1, Len(e) + 2) = <<"/", "api">>
              /\ call.op = "createAnima" => path = <<"/", "animas">>
              /\ call.op = "extract" => path = <<"/", "events">>
              /\ call.op = "inject"
                    => SubSeq(path, 1, 3) = <<"/", "animas", "/">>

\* C9 amended: the URL of every request is the effective endpoint, then '/api',
\* then the path of the operation; the effective endpoint is the configured
\* endpoint (config, else environment, else the default) with one trailing
\* slash removed if it ends in one, so it ends with '/' only when the configured
\* endpoint ends in two or more slashes.
C9_Amended ==
    /\ client # None
       => LET given == IF TruthyStr(config[1].endpoint) THEN config[1].endpoint[1]
                       ELSE IF TruthyStr(env.ELEPHANTASM_ENDPOINT)
                            THEN env.ELEPHANTASM_ENDPOINT[1]
                            ELSE <<"https:", "/", "/", "api.elephantasm.com">>
              e     == client[1].endpoint
              n     == Len(given)
          IN  /\ (n > 0 /\ given[n] = "/") => e \o <<"/">> = given
              /\ ~(n > 0 /\ given[n] = "/") => e = given
              /\ ~(n > 1 /\ given[n] = "/" /\ given[n - 1] = "/")
                    => (Len(e) = 0 \/ e[Len(e)] # "/")
    /\ call.request # None
       => LET url  == call.request[1].url
              e    == client[1].endpoint
              path == SubSeq(url, Len(e) + 3, Len(url))
          IN  /\ Len(url) >= Len(e) + 2
              /\ SubSeq(url, 1, Len(e)) = e
              /\ SubSeq(url, Len(e) + 1, Len(e) + 2) = <<"/", "api">>
              /\ call.op = "createAnima" => path = <<"/", "animas">>
              /\ call.op = "extract" => path = <<"/", "events">>
              /\ call.op = "inject"
                    => SubSeq(path, 1, 3) = <<"/", "animas", "/">>

\* C9 witness: a request is out from a client configured with 'http://host/',
\* to 'http://host/api/events'
C9_Witness ==
    /\ call.request # None
    /\ config[1].endpoint = << <<"http:", "/", "/", "host", "/">> >>
    /\ call.request[1].url = <<"http:", "/", "/", "host", "/", "api", "/", "events">>

\* C10: in inject and extract the identifier placed in the request (the path
\* segment after /animas/ for inject, the body field anima_id for extract) is the
\* one passed in the options when one is passed (the empty string counting as
\* none), and the configured default only otherwise.
C10_ExplicitAnimaIdWins ==
    (call.request # None /\ call.op \in {"inject", "extract"})
    => LET eff == IF call.args.animaId # None /\ call.args.animaId # << << >> >>
                  THEN call.args.animaId[1]
                  ELSE client[1].defaultAnimaId[1]
           url == call.request[1].url
           e   == client[1].endpoint
           path == SubSeq(url, Len(e) + 3, Len(url))
       IN  /\ eff # << >>
           /\ call.op = "inject"
                => /\ Len(path) >= 3 + Len(eff) + 4
                   /\ SubSeq(path, 1, 3 + Len(eff) + 4)
                        = <<"/", "animas", "/">> \o eff
                          \o <<"/", "memory-packs", "/", "latest">>
           /\ call.op = "extract" => call.request[1].body[1]["anima_id"] = eff

\* C10 witness: inject was called with an identifier on a client that has a
\* different default, and the request names the identifier of the call
C10_Witness ==
    /\ call.request # None
    /\ call.op = "inject"
    /\ client[1].defaultAnimaId = << <<"anima-cfg">> >>
    /\ call.args.animaId = << <<"anima-arg">> >>
    /\ call.request[1].url
         = <<"https:", "/", "/", "api.elephantasm.com", "/", "api", "/", "animas", "/",
             "anima-arg", "/", "memory-packs", "/", "latest">>

\* C11: when inject or extract is called with no anima identifier available
\* (none in the options, none configured), or extract with an event-type token
\* the resolver rejects, the call rejects and no HTTP request was issued for it:
\* no fetch, no timer, the request counter left where it was.
C11_InputFailuresPrecedeNetwork ==
    LET noId     == /\ call.op \in {"inject", "extract"}
                    /\ ~TruthyStr(call.args.animaId)
                    /\ ~TruthyStr(client[1].defaultAnimaId)
        badToken == /\ call.op = "extract"
                    /\ ResolveEventType(call.args.eventType[1]).threw
    IN  (noId \/ badToken)
        => /\ call.pc = "settled"
           /\ call.outcome # None
           /\ call.outcome[1].state = "rejected"
           /\ call.request = None
           /\ call.fetches = 0
           /\ call.timer = "unset"
           /\ wire < invocations

\* C11 witness: extract with a rejected token on a client that has an anima
\* identifier was rejected with ValidationError before any request
C11_Witness ==
    /\ call.op = "extract"
    /\ TruthyStr(client[1].defaultAnimaId)
    /\ call.args.eventType = << <<"M","e","s","s","a","g","e",".","I","n">> >>
    /\ call.outcome # None
    /\ call.outcome[1].error[1].kind = "ValidationError"
    /\ invocations = 1
    /\ wire = 0

(***************************************************************************)
(* The request URL as its receiver reads it                                *)
(***************************************************************************)
Range(s) == {s[i] : i \in 1..Len(s)}

\* the atoms of s before the first sep, and those after it
BeforeFirst(s, sep) ==
    IF sep \in Range(s)
    THEN SubSeq(s, 1, (CHOOSE i \in 1..Len(s) : s[i] = sep /\ \A j \in 1..(i-1) : s[j] # sep) - 1)
    ELSE s

AfterFirst(s, sep) ==
    IF sep \in Range(s)
    THEN SubSeq(s, (CHOOSE i \in 1..Len(s) : s[i] = sep /\ \A j \in 1..(i-1) : s[j] # sep) + 1,
                Len(s))
    ELSE << >>

RECURSIVE SplitOn(_, _)
SplitOn(s, sep) ==
    IF sep \in Range(s)
    THEN <<BeforeFirst(s, sep)>> \o SplitOn(AfterFirst(s, sep), sep)
    ELSE <<s>>

\* application/x-www-form-urlencoded parsing of one atom
FormDecodeAtom(a) ==
    IF a = "+" THEN " "
    ELSE IF a = "%26" THEN "&"
    ELSE IF a = "%2F" THEN "/"
    ELSE IF a = "%3D" THEN "="
    ELSE IF a = "%2B" THEN "+"
    ELSE IF a = "%25" THEN "%"
    ELSE IF a = "%3F" THEN "?"
    ELSE IF a = "%23" THEN "#"
    ELSE a

FormDecode(s) == [i \in 1..Len(s) |-> FormDecodeAtom(s[i])]

\* the parameters a URL carries, in order, as <<name, value>> pairs; a URL
\* without '?' or with nothing after it carries none
UrlParams(url) ==
    LET query  == AfterFirst(url, "?")
        pieces == IF query = << >> THEN << >> ELSE SplitOn(query, "&")
    IN  [i \in 1..Len(pieces) |->
            <<FormDecode(BeforeFirst(pieces[i], "=")), FormDecode(AfterFirst(pieces[i], "="))>>]

\* C12: in the URL requested by inject a 'query' parameter appears iff the
\* caller supplied a (non-empty) query and a 'preset' parameter iff the caller
\* supplied a (non-empty) preset, each carrying the supplied value; the URL
\* carries no other parameter, none with an empty value, and when neither is
\* supplied it has no '?' at all.
C12_InjectParamsIffSupplied ==
    (call.op = "inject" /\ call.request # None)
    => LET url      == call.request[1].url
           params   == UrlParams(url)
           q        == call.args.query
           p        == call.args.preset
           expected == (IF TruthyStr(q) THEN {<< <<"query">>, q[1] >>} ELSE {})
                       \cup (IF TruthyStr(p) THEN {<< <<"preset">>, p[1] >>} ELSE {})
       IN  /\ Range(params) = expected
           /\ Len(params) = Cardinality(expected)
           /\ \A i \in 1..Len(params) : params[i][2] # << >>
           /\ (~TruthyStr(q) /\ ~TruthyStr(p)) => "?" \notin Range(url)

\* C12 witness: inject was issued with a query holding '&' and '=' and a preset;
\* the URL escapes the query and carries both
C12_Witness ==
    /\ call.op = "inject"
    /\ call.request # None
    /\ call.args.query = Some(<<"x", "&", "preset", "=", "y">>)
    /\ call.args.preset = Some(<<"brief">>)
    /\ "%26" \in Range(call.request[1].url)
    /\ Len(UrlParams(call.request[1].url)) = 2

\* C13: when the server answers inject with a 2xx response whose JSON body is
\* null, inject resolves with null: it does not reject and returns no pack
\* object; when the body is a pack record it resolves with a non-null pack that
\* carries the six accessor methods.
C13_NullPackResolvesNull ==
    (/\ call.op = "inject"
     /\ call.pc = "settled"
     /\ call.response # None
     /\ call.body # None
     /\ ResponseOk(call.response[1].status)
     /\ call.body[1].parsed)
    => /\ call.outcome[1].state = "resolved"
       /\ LET r == call.outcome[1].value[1]
          IN  IF call.body[1].json.null
              THEN r.null /\ ~r.wrapped
              ELSE /\ ~r.null
                   /\ r.wrapped
                   /\ r.json = call.body[1].json
                   /\ DOMAIN r.methods = {"asPrompt", "getIdentity", "getSessionMemories",
                                          "getKnowledge", "getLongTermMemories",
                                          "getTemporalContext"}

\* C13 witness: inject received 200 with the body null and resolved with null
C13_Witness ==
    /\ call.op = "inject"
    /\ call.pc = "settled"
    /\ call.response = Some([status |-> 200, statusText |-> <<"Status Phrase">>])
    /\ call.body = Some([parsed |-> TRUE, json |-> JNull])
    /\ call.outcome[1].state = "resolved"
    /\ call.outcome[1].value[1].null

\* C14: for every pack inject returns, asPrompt() gives content.context or '',
\* the three list accessors give the server's sequence unchanged or an empty
\* sequence (never null or undefined), getIdentity() and getTemporalContext()
\* give the server's value or undefined; this also when content is null or
\* missing, and no accessor throws.
C14_AccessorsProject ==
    (/\ call.op = "inject"
     /\ call.pc = "settled"
     /\ call.outcome[1].state = "resolved"
     /\ call.outcome[1].value[1].wrapped)
    => LET m      == call.outcome[1].value[1].methods
           c      == call.body[1].json.content
           sent(k) == IF c.t = "object" THEN c.v[k] ELSE Undefined
           list(k) == IF sent(k).t = "array" THEN sent(k) ELSE JsonArray(<< >>)
       IN  /\ \A k \in DOMAIN m : ~m[k].threw
           /\ m.asPrompt.value.t = "string"
           /\ m.asPrompt.value.v = (IF sent("context").t = "string"
                                    THEN sent("context").v ELSE << >>)
           /\ m.getSessionMemories.value = list("session_memories")
           /\ m.getKnowledge.value = list("knowledge")
           /\ m.getLongTermMemories.value = list("long_term_memories")
           /\ \A k \in {"getSessionMemories", "getKnowledge", "getLongTermMemories"} :
                 m[k].value.t = "array"
           /\ m.getIdentity.value = sent("identity")
           /\ m.getTemporalContext.value = sent("temporal_context")

\* C14 witness: a pack whose content is null was returned, and its list
\* accessors give empty sequences
C14_Witness ==
    /\ call.op = "inject"
    /\ call.pc = "settled"
    /\ call.body # None
    /\ ~call.body[1].json.null
    /\ call.body[1].json.content = JsonNull
    /\ call.outcome[1].value[1].wrapped
    /\ call.outcome[1].value[1].methods.getKnowledge = [threw |-> FALSE, value |-> JsonArray(<< >>)]

\* C14 second case: a pack with every member present was returned, and the
\* accessors give the members as sent
C14_WitnessFull ==
    /\ call.op = "inject"
    /\ call.pc = "settled"
    /\ call.body # None
    /\ call.body[1].json.content.t = "object"
    /\ call.outcome[1].value[1].methods.getKnowledge.value = JsonArray(<<"fact-2", "fact-1">>)
    /\ call.outcome[1].value[1].methods.asPrompt.value = JsonString(<<"You are a helper.">>)
    /\ call.outcome[1].value[1].methods.getIdentity.value = JsonObject(<<"INTJ">>)

\* C15: the JSON body sent by extract always has anima_id, event_type and
\* content; each optional field (session_id, role, author, occurred_at, meta,
\* importance_score) is present with exactly the caller's value when the caller
\* gave the option and is no key of the body at all when the caller did not;
\* the body has no other key.
C15_OptionalFieldsIffSupplied ==
    (call.op = "extract" /\ call.request # None)
    => LET data     == call.request[1].body[1]
           a        == call.args
           required == {"anima_id", "event_type", "content"}
           optional == [session_id       |-> a.sessionId,
                        role             |-> a.role,
                        author           |-> a.author,
                        occurred_at      |-> a.occurredAt,
                        meta             |-> a.meta,
                        importance_score |-> a.importanceScore]
       IN  /\ required \subseteq DOMAIN data
           /\ DOMAIN data \subseteq required \cup DOMAIN optional
           /\ \A k \in DOMAIN optional : (k \in DOMAIN data) <=> (optional[k] # None)
           /\ \A k \in DOMAIN optional : optional[k] # None => data[k] = optional[k][1]

\* C15 witness: extract was issued with an empty session id and the score 0 and
\* without a role; the body carries the first two as given and has no role key
C15_Witness ==
    /\ call.op = "extract"
    /\ call.request # None
    /\ call.args.sessionId = Some(<< >>)
    /\ call.args.importanceScore = Some(0)
    /\ call.args.role = None
    /\ call.args.meta # None
    /\ "session_id" \in DOMAIN call.request[1].body[1]
    /\ call.request[1].body[1]["importance_score"] = 0
    /\ "role" \notin DOMAIN call.request[1].body[1]

(***************************************************************************)
(* Event-type tokens as the claims speak of them                           *)
(***************************************************************************)
\* the uppercase-underscore alias of a canonical tag: tool.call -> TOOL_CALL
AliasOf(tag) == [i \in 1..Len(tag) |-> IF tag[i] = "." THEN "_" ELSE ToUpperChar(tag[i])]

\* a and b are the same string when letter case is ignored
SameIgnoringCase(a, b) ==
    /\ Len(a) = Len(b)
    /\ \A i \in 1..Len(a) : ToUpperChar(a[i]) = ToUpperChar(b[i])

\* the tag is canonical, or a letter-casing of one of the five aliases
IsAliasCasing(token) == \E v \in VALID_EVENT_TYPES : SameIgnoringCase(token, AliasOf(v))

\* C16: the event_type of every body extract sends is one of the five canonical
\* values and equals resolveEventType(token) for the caller's token; a legacy
\* alias such as TOOL_CALL is never sent, and content is sent exactly as given.
C16_CanonicalEventTypeOnWire ==
    (call.op = "extract" /\ call.request # None)
    => LET data  == call.request[1].body[1]
           token == call.args.eventType[1]
       IN  /\ data["event_type"] \in
                 { <<"m","e","s","s","a","g","e",".","i","n">>,
                   <<"m","e","s","s","a","g","e",".","o","u","t">>,
                   <<"t","o","o","l",".","c","a","l","l">>,
                   <<"t","o","o","l",".","r","e","s","u","l","t">>,
                   <<"s","y","s","t","e","m">> }
           /\ ~ResolveEventType(token).threw
           /\ data["event_type"] = ResolveEventType(token).value
           /\ (token \notin VALID_EVENT_TYPES) => data["event_type"] # token
           /\ \A v \in VALID_EVENT_TYPES : data["event_type"] # AliasOf(v)
           /\ data["content"] = call.args.content[1]

\* C16 witness: extract('Tool_Call', content with quotes) was issued with
\* event_type 'tool.call' and the content as given
C16_Witness ==
    /\ call.op = "extract"
    /\ call.request # None
    /\ call.args.eventType = Some(<<"T","o","o","l","_","C","a","l","l">>)
    /\ call.args.content = Some(<<" say ", "\"", "hi", "\"", " ">>)
    /\ call.request[1].body[1]["event_type"] = <<"t","o","o","l",".","c","a","l","l">>
    /\ call.request[1].body[1]["content"] = <<" say ", "\"", "hi", "\"", " ">>

\* C17: resolveEventType returns each of the five canonical tags unchanged, and
\* for each uppercase-underscore alias written in any letter-casing it returns
\* the corresponding canonical tag: extract called with such a token sends that
\* tag.
C17_CanonicalAndAliasesResolve ==
    (call.op = "extract")
    => LET token == call.args.eventType[1]
       IN  \A v \in VALID_EVENT_TYPES :
              (token = v \/ SameIgnoringCase(token, AliasOf(v)))
              => /\ call.request # None
                 /\ call.request[1].body[1]["event_type"] = v
                 /\ ResolveEventType(token) = [threw |-> FALSE, value |-> v, error |-> None]

\* C17 witness: extract('mESSAGE_oUT', ...) was issued with 'message.out'
C17_Witness ==
    /\ call.op = "extract"
    /\ call.args.eventType = Some(<<"m","E","S","S","A","G","E","_","o","U","T">>)
    /\ call.request # None
    /\ call.request[1].body[1]["event_type"] = <<"m","e","s","s","a","g","e",".","o","u","t">>

\* sub occurs in s at position i
OccursAt(s, sub, i) == i + Len(sub) - 1 <= Len(s) /\ SubSeq(s, i, i + Len(sub) - 1) = sub

Contains(s, sub) == \E i \in 1..(Len(s) + 1) : OccursAt(s, sub, i)

RECURSIVE OccurInOrder(_, _, _)
\* the strings of subs occur in s one after the other, from position from on
OccurInOrder(s, subs, from) ==
    IF subs = << >> THEN TRUE
    ELSE \E i \in from..Len(s) :
            /\ OccursAt(s, subs[1], i)
            /\ OccurInOrder(s, Tail(subs), i + Len(subs[1]))

\* C18: for every string that is neither exactly a canonical tag nor a
\* letter-casing of one of the five aliases (the empty string and
\* 'TOOL_CALL_EXTRA' among them) resolveEventType throws ValidationError whose
\* message contains "Invalid eventType '<token>'", the five canonical values in
\* sorted order, and the word 'Hint'; it returns no value, so extract sends
\* nothing.
C18_OtherTokensRejected ==
    (call.op = "extract")
    => LET token == call.args.eventType[1]
       IN  (token \notin VALID_EVENT_TYPES /\ ~IsAliasCasing(token))
           => /\ call.request = None
              /\ call.pc = "settled"
              /\ call.outcome[1].state = "rejected"
              /\ call.outcome[1].value = None
              /\ LET e == call.outcome[1].error[1]
                 IN  /\ e.kind = "ValidationError"
                     /\ Contains(e.message, <<"Invalid eventType '">> \o token \o <<"'">>)
                     /\ OccurInOrder(e.message,
                           << <<"m","e","s","s","a","g","e",".","i","n">>,
                              <<"m","e","s","s","a","g","e",".","o","u","t">>,
                              <<"s","y","s","t","e","m">>,
                              <<"t","o","o","l",".","c","a","l","l">>,
                              <<"t","o","o","l",".","r","e","s","u","l","t">> >>,
                           2 + Len(token))
                     /\ Contains(e.message, <<"Hint">>)

\* C18 witness: extract('TOOL_CALL_EXTRA', ...) was rejected with the
\* ValidationError that quotes the token
C18_Witness ==
    /\ call.op = "extract"
    /\ call.args.eventType = Some(<<"T","O","O","L","_","C","A","L","L","_","E","X","T","R","A">>)
    /\ call.request = None
    /\ call.outcome[1].error[1].kind = "ValidationError"
    /\ OccursAt(call.outcome[1].error[1].message,
                <<"Invalid eventType '",
                  "T","O","O","L","_","C","A","L","L","_","E","X","T","R","A", "'">>, 1)

\* C19 (as written): for each of the five canonical tags, a token that equals
\* the tag only when letter case is ignored is rejected with ValidationError.
C19_Original ==
    (call.op = "extract")
    => LET token == call.args.eventType[1]
       IN  \A v \in VALID_EVENT_TYPES :
              (SameIgnoringCase(token, v) /\ token # v)
              => /\ call.request = None
                 /\ call.outcome[1].state = "rejected"
                 /\ call.outcome[1].error[1].kind = "ValidationError"

\* C19 (amended): a token that equals one of the four dotted tags only when
\* letter case is ignored is rejected with ValidationError; a token that equals
\* 'system' only when letter case is ignored is a letter-casing of the alias
\* SYSTEM and resolves to 'system'.
C19_Amended ==
    (call.op = "extract")
    => LET token == call.args.eventType[1]
           system == <<"s","y","s","t","e","m">>
       IN  /\ \A v \in VALID_EVENT_TYPES \ {system} :
                 (SameIgnoringCase(token, v) /\ token # v)
                 => /\ call.request = None
                    /\ call.outcome[1].state = "rejected"
                    /\ call.outcome[1].error[1].kind = "ValidationError"
           /\ (SameIgnoringCase(token, system) /\ token # system)
              => /\ call.request # None
                 /\ call.request[1].body[1]["event_type"] = system

\* C19 witness: extract('Tool.Call', ...) was rejected with ValidationError and
\* sent nothing
C19_Witness ==
    /\ call.op = "extract"
    /\ call.args.eventType = Some(<<"T","o","o","l",".","C","a","l","l">>)
    /\ call.request = None
    /\ call.outcome[1].state = "rejected"
    /\ call.outcome[1].error[1].kind = "ValidationError"

\* C20: for every non-2xx response the message of the failure is the 'detail'
\* of the JSON error body when the body parses and carries a (non-empty)
\* detail, and the response's status phrase otherwise (body not JSON, body
\* null, no detail); the kind of the failure is the one the status gives
\* whichever message is used.
C20_DetailElseStatusText ==
    (/\ call.pc = "settled"
     /\ call.response # None
     /\ call.body # None
     /\ ~ResponseOk(call.response[1].status))
    => LET r == call.response[1]
           b == call.body[1]
           carriesDetail == /\ b.parsed
                            /\ ~b.json.null
                            /\ b.json.detail # None
                            /\ b.json.detail[1] # << >>
           e == call.outcome[1].error[1]
       IN  /\ call.outcome[1].state = "rejected"
           /\ e.message = (IF carriesDetail THEN b.json.detail[1] ELSE r.statusText)
           /\ e.kind = MapStatus(r.status, << >>).kind
           /\ e.statusCode = MapStatus(r.status, << >>).statusCode

\* C20 witness: a 404 whose body carries a detail was rejected with
\* NotFoundError and the detail as message
C20_Witness ==
    /\ call.pc = "settled"
    /\ call.response = Some([status |-> 404, statusText |-> <<"Status Phrase">>])
    /\ call.body # None
    /\ call.body[1].parsed
    /\ call.body[1].json.detail = Some(<<"server detail">>)
    /\ call.outcome[1].error[1].kind = "NotFoundError"
    /\ call.outcome[1].error[1].message = <<"server detail">>

\* C20 second case: a 500 whose body is not JSON was rejected with ServerError
\* and the status phrase as message
C20_WitnessStatusText ==
    /\ call.pc = "settled"
    /\ call.response = Some([status |-> 500, statusText |-> <<"Status Phrase">>])
    /\ call.body # None
    /\ ~call.body[1].parsed
    /\ call.outcome[1].error[1].kind = "ServerError"
    /\ call.outcome[1].error[1].message = <<"Status Phrase">>

C22_CreateAnimaPassThrough ==
    (call.op = "createAnima")
    => /\ call.request # None
       /\ call.fetches = 1
       /\ call.request[1].method = "POST"
       /\ call.request[1].url = client[1].endpoint \o <<"/", "api", "/", "animas">>
       /\ LET data == call.request[1].body[1]
              a    == call.args
          IN  /\ "name" \in DOMAIN data
              /\ DOMAIN data \subseteq {"name", "description", "meta"}
              /\ ("description" \in DOMAIN data) <=> (a.description # None)
              /\ ("meta" \in DOMAIN data) <=> (a.meta # None)
              /\ data["name"] = a.name[1]
              /\ a.description # None => data["description"] = a.description[1]
              /\ a.meta # None => data["meta"] = a.meta[1]
       /\ (call.pc = "settled" /\ call.response # None)
          => LET r == call.response[1]
                 o == call.outcome[1]
             IN  /\ r.status = 422
                    => o.state = "rejected" /\ o.error[1].kind = "ValidationError"
                 /\ (ResponseOk(r.status) /\ call.body[1].parsed)
                    => /\ o.state = "resolved"
                       /\ o.value[1].json = call.body[1].json
                       /\ ~o.value[1].wrapped

\* C22 witness: createAnima('') with an empty description and a mapping was
\* sent with all three members, answered 422, and rejected with ValidationError
C22_Witness ==
    /\ call.op = "createAnima"
    /\ call.args.name = Some(<< >>)
    /\ call.args.description = Some(<< >>)
    /\ call.args.meta # None
    /\ call.request # None
    /\ DOMAIN call.request[1].body[1] = {"name", "description", "meta"}
    /\ call.pc = "settled"
    /\ call.response[1].status = 422
    /\ call.outcome[1].error[1].kind = "ValidationError"

\* C23: in request() a failure that is already an ElephantasmError (the one
\* built from a non-2xx status) reaches the caller with its kind, message and
\* status code, not re-wrapped; any other exception of the round trip (fetch
\* rejecting with a network error, a 2xx body that is not JSON) reaches the
\* caller as the base ElephantasmError with no status code and the message
\* 'Request failed: <cause>'; the timeout message is given only when the
\* call's own timer fired.
C23_CatchBlockPropagation ==
    (/\ call.pc = "settled"
     /\ call.request # None
     /\ call.outcome[1].state = "rejected")
    => LET e == call.outcome[1].error[1]
           failed(cause) == [kind |-> "ElephantasmError",
                             message |-> <<"Request failed: ">> \o cause,
                             statusCode |-> None]
           timeoutMessage == <<"Request timeout after ", ToString(client[1].timeout), "ms">>
       IN  /\ (call.response # None /\ ~ResponseOk(call.response[1].status))
              => /\ e = MapStatus(call.response[1].status,
                                  ErrorDetail(call.body[1], call.response[1].statusText))
                 /\ e.statusCode # None
                 /\ \A i \in 1..Len(e.message) : e.message[i] # "Request failed: "
           /\ (call.response # None /\ ResponseOk(call.response[1].status))
              => /\ ~call.body[1].parsed
                 /\ e = failed(<<"SyntaxError", ": ", "Unexpected token">>)
           /\ (call.response = None /\ call.timer # "fired")
              => e = failed(<<"TypeError", ": ", "fetch failed">>)
           /\ (e.message = timeoutMessage) <=> (call.timer = "fired")

\* C23 witness: a 200 answer whose body is not JSON was rejected with the base
\* ElephantasmError 'Request failed: SyntaxError: ...' and no status code
C23_Witness ==
    /\ call.pc = "settled"
    /\ call.response # None
    /\ call.response[1].status = 200
    /\ call.body # None
    /\ ~call.body[1].parsed
    /\ call.outcome[1].error[1].kind = "ElephantasmError"
    /\ call.outcome[1].error[1].statusCode = None
    /\ Head(call.outcome[1].error[1].message) = "Request failed: "

\* C23 second case: a 429 answer was rejected with RateLimitError carrying the
\* server's detail and the status code 429
C23_WitnessTyped ==
    /\ call.pc = "settled"
    /\ call.response # None
    /\ call.response[1].status = 429
    /\ call.outcome[1].error[1] = RateLimitError(<<"server detail">>)

\* C24: calls in flight together on one client are independent. Each call has
\* its own controller and timer: a call is aborted only when its own timer
\* fired, and then it is that call which rejects with the timeout message; the
\* outcome of every other call is what its own response and body give. On every
\* exit path the call's timer is cancelled (or has fired), so no abort fires
\* after the call has settled.
C24_ConcurrentCallsIndependent ==
    \A i \in 1..MaxInflight :
        LET c == inflight[i]
            timeoutError == ElephantasmError(
                <<"Request timeout after ", ToString(client[1].timeout), "ms">>, None)
        IN  /\ c.aborted <=> (c.timer = "fired")
            /\ c.timer = "fired"
               => /\ c.pc = "settled"
                  /\ c.response = None
                  /\ c.outcome = Rejected(timeoutError)
            /\ (c.pc = "settled" /\ c.request # None) => c.timer \in {"cleared", "fired"}
            /\ (c.pc = "settled" /\ c.request # None /\ c.timer = "cleared")
               => c.outcome =
                     IF c.response = None
                     THEN Rejected(ElephantasmError(
                              <<"Request failed: ", "TypeError", ": ", "fetch failed">>, None))
                     ELSE SettleAfterBody(c.op, c.response[1], c.body[1], client[1].timeout)

\* C24 witness: of two calls made together the first timed out and the second
\* was answered 200 and resolved
C24_Witness ==
    /\ inflight[1].timer = "fired"
    /\ inflight[1].outcome[1].state = "rejected"
    /\ inflight[2].pc = "settled"
    /\ inflight[2].timer = "cleared"
    /\ ~inflight[2].aborted
    /\ inflight[2].response # None
    /\ inflight[2].response[1].status = 200
    /\ inflight[2].outcome[1].state = "resolved"

\* C25: the module-level createAnima, inject and extract share one lazily made
\* client: at most one instance is ever constructed, and once it is, every
\* later call uses it; when construction fails for want of a credential nothing
\* is memoized, the call rejects with AuthenticationError, and each later call
\* attempts construction again.
C25_OneDefaultClient ==
    LET started == {i \in 1..MaxInflight : inflight[i].pc # "idle"}
    IN  /\ module.constructed <= 1
        /\ (module.defaultClient = None) <=> (module.constructed = 0)
        /\ module.defaultClient # None => module.defaultClient[1].id = 1
        /\ \A i \in started :
              /\ module.via[i] \in {0, 1}
              /\ module.via[i] = 0
                 => /\ inflight[i].request = None
                    /\ inflight[i].outcome[1].state = "rejected"
                    /\ inflight[i].outcome[1].error[1].kind = "AuthenticationError"
              /\ (module.via[i] = 1 /\ inflight[i].request # None)
                 => inflight[i].request[1].headers["Authorization"]
                       = <<"Bearer ">> \o module.defaultClient[1].fields.apiKey
        /\ \A i \in started, j \in started : (i < j /\ module.via[i] = 1) => module.via[j] = 1
        /\ module.failed = Cardinality({i \in started : module.via[i] = 0})

\* C25 witness: the first module-level call found no credential and was
\* rejected with AuthenticationError; the environment then had one, and the
\* second call constructed the client and was sent
C25_Witness ==
    /\ inflight[1].outcome # None
    /\ inflight[1].outcome[1].error # None
    /\ inflight[1].outcome[1].error[1].kind = "AuthenticationError"
    /\ module.via[1] = 0
    /\ module.via[2] = 1
    /\ module.failed = 1
    /\ module.constructed = 1
    /\ inflight[2].request # None

\* C25 second case: two module-level calls are pending together, both sent
\* through the one instance
C25_WitnessShared ==
    /\ inflight[1].pc = "fetching"
    /\ inflight[2].pc = "fetching"
    /\ module.via[1] = 1
    /\ module.via[2] = 1
    /\ module.constructed = 1

====
